---- MODULE Spec2Model ----
(***************************************************************************)
(* A model of the RSS news dashboards of this repository:                  *)
(*   src/app.py              fetch_rss_feed, filter_entries_by_keywords,   *)
(*                           paginate_entries, get_page_entries            *)
(*   src/src/app.py          fetch_rss, filter_by_keywords, the page slice *)
(*   src/news_analyzer.py    call_openrouter_api (secrets read per call)   *)
(*   src/src/news_analyzer.py call_openrouter_api (module-level API_KEY)   *)
(* and of the two Streamlit scripts as sessions of script runs:            *)
(*   src/src/app.py          Select, Analyze News, the page controls       *)
(*   src/app.py              main(): pagination, filters, auto refresh     *)
(*                                                                         *)
(* A Python str is a sequence of one-character strings, so that lower(),   *)
(* strip(), the `in` substring test, slicing and strptime/strftime are     *)
(* computed on characters.  A Python dict with optional keys is a function *)
(* whose DOMAIN is the set of keys present.  A call's outcome is either a  *)
(* returned value or a raised exception.                                   *)
(***************************************************************************)
EXTENDS Integers, Sequences, FiniteSets, TLC

VARIABLES
    \* the feed normalizer
    feed,          \* what feedparser.parse(url) does: raises, or a parsed feed
    max_entries,   \* the limit passed to the normalizer
    fetch_pc,      \* "idle", or the normalizer that has run
    fetch_out,     \* the outcome of that call
    \* the keyword filter
    kw_lines,      \* the lines typed in the keyword text area
    articles,      \* the articles given to the filter
    filter_pc,     \* "idle", or the filter that has run
    filter_out,    \* the list the filter returned
    \* the paginator
    entries,       \* the filtered list that is paginated
    page_size,     \* articles per page
    page_pc,       \* "idle", or the paginator step that has run
    total_pages,   \* the page count computed
    page_num,      \* the page asked for
    page_entries,  \* the slice shown
    \* the summarization client
    secrets,       \* st.secrets: a mapping that may hold OPENROUTER_API_KEY
    environ,       \* os.environ: likewise
    endpoint,      \* what the endpoint does with a request
    api_pc,        \* "idle", or the client that has run
    api_out,       \* the outcome of call_openrouter_api
    http_calls,    \* requests.post calls made
    \* a session of the dashboard of src/src/app.py
    picked,          \* st.session_state.picked: None or an article
    analysis,        \* st.session_state.analysis: None or a result dict
    analysis_prompt, \* the prompt of the request analysis is the outcome of
    page_selector,   \* st.session_state.page_selector, the "Page" input
    b_shown,         \* the widgets the last script run left on the page
    b_run,           \* the last script run: its trigger, calls and outcome
    \* a session of the dashboard of src/app.py
    current_page,    \* st.session_state.current_page
    st_keywords,     \* st.session_state.keywords
    source_selector, \* whether the select box holds a source
    auto_refresh,    \* the "Auto refresh" checkbox
    a_shown,         \* the widgets the last script run left on the page
    a_run            \* the last script run: its trigger, calls and outcome

feed_vars == <<feed, max_entries, fetch_pc, fetch_out>>
filter_vars == <<kw_lines, articles, filter_pc, filter_out>>
page_vars == <<entries, page_size, page_pc, total_pages, page_num, page_entries>>

api_vars == <<secrets, environ, endpoint, api_pc, api_out, http_calls>>

dash_b_vars ==
    <<picked, analysis, analysis_prompt, page_selector, b_shown, b_run>>
dash_a_vars ==
    <<current_page, st_keywords, source_selector, auto_refresh, a_shown, a_run>>
dash_vars == <<dash_b_vars, dash_a_vars>>

vars == <<feed_vars, filter_vars, page_vars, api_vars, dash_vars>>

----------------------------------------------------------------------------
(* Python primitives *)

Min(a, b) == IF a <= b THEN a ELSE b
Max(a, b) == IF a >= b THEN a ELSE b

\* The outcome of a call: a returned value, or an exception leaving the call.
Return(v) == [raised |-> FALSE, val |-> v]
Raise(e)  == [raised |-> TRUE, exc |-> e]


\* Python's None; no text is equal to it, a text's elements being characters
None == <<"<None>">>

\* None where the other values are dicts (a dict is never equal to it)
NoneDict == [is_none |-> TRUE]

\* s[start:stop] for a sequence s and integers start, stop (step 1): negative
\* indices count from the end, and both are clipped to the sequence.
PyIndex(n, i) == IF i < 0 THEN Max(n + i, 0) ELSE Min(i, n)
PySlice(s, start, stop) ==
    LET lo == PyIndex(Len(s), start)
        hi == PyIndex(Len(s), stop)
    IN  IF hi <= lo THEN <<>> ELSE SubSeq(s, lo + 1, hi)

\* d.get(k, default) and hasattr(d, k) of a feedparser entry
Get(d, k, default) == IF k \in DOMAIN d THEN d[k] ELSE default
HasAttr(d, k) == k \in DOMAIN d

----------------------------------------------------------------------------
(* datetime.strptime(text, "%a, %d %b %Y %H:%M:%S %z")
            .strftime("%Y-%m-%d %H:%M")
   on the fixed-width form "Mon, 02 Jan 2006 15:04:05 -0700" (31 characters):
   names as abbreviated by the C locale, two-digit day, hour, minute and
   second, four-digit year, a signed four-digit offset.  Every other text of
   the model raises ValueError, as it does in Python. *)

DigitChars == <<"0", "1", "2", "3", "4", "5", "6", "7", "8", "9">>
IsDigit(c) == \E i \in 1..10 : DigitChars[i] = c
DigitVal(c) == (CHOOSE i \in 1..10 : DigitChars[i] = c) - 1
AllDigits(s) == \A i \in 1..Len(s) : IsDigit(s[i])

RECURSIVE NumVal(_)
NumVal(s) == IF s = <<>> THEN 0
             ELSE 10 * NumVal(SubSeq(s, 1, Len(s) - 1)) + DigitVal(s[Len(s)])

Digits2(n) == <<DigitChars[((n \div 10) % 10) + 1], DigitChars[(n % 10) + 1]>>
Digits4(n) == Digits2(n \div 100) \o Digits2(n % 100)

WeekdayNames == {<<"M", "o", "n">>, <<"T", "u", "e">>, <<"W", "e", "d">>, <<"T", "h", "u">>, <<"F", "r", "i">>, <<"S", "a", "t">>, <<"S", "u", "n">>}
MonthNames == <<<<"J", "a", "n">>, <<"F", "e", "b">>, <<"M", "a", "r">>, <<"A", "p", "r">>,
               <<"M", "a", "y">>, <<"J", "u", "n">>, <<"J", "u", "l">>, <<"A", "u", "g">>,
               <<"S", "e", "p">>, <<"O", "c", "t">>, <<"N", "o", "v">>, <<"D", "e", "c">>>>
MonthOf(s) == CHOOSE m \in 1..12 : MonthNames[m] = s
IsLeap(y) == ((y % 4) = 0 /\ (y % 100) # 0) \/ (y % 400) = 0
DaysInMonth(y, m) ==
    IF m = 2 THEN (IF IsLeap(y) THEN 29 ELSE 28)
    ELSE IF m \in {4, 6, 9, 11} THEN 30 ELSE 31

\* The strict pattern: TRUE iff strptime returns a datetime.
MatchesDateFormat(s) ==
    /\ Len(s) = 31
    /\ SubSeq(s, 1, 3) \in WeekdayNames
    /\ s[4] = "," /\ s[5] = " " /\ s[8] = " " /\ s[12] = " " /\ s[17] = " "
    /\ s[20] = ":" /\ s[23] = ":" /\ s[26] = " "
    /\ AllDigits(SubSeq(s, 6, 7))
    /\ \E m \in 1..12 : MonthNames[m] = SubSeq(s, 9, 11)
    /\ AllDigits(SubSeq(s, 13, 16))
    /\ AllDigits(SubSeq(s, 18, 19)) /\ AllDigits(SubSeq(s, 21, 22))
    /\ AllDigits(SubSeq(s, 24, 25))
    /\ s[27] \in {"+", "-"} /\ AllDigits(SubSeq(s, 28, 31))
    /\ NumVal(SubSeq(s, 13, 16)) >= 1
    /\ NumVal(SubSeq(s, 6, 7)) >= 1
    /\ NumVal(SubSeq(s, 6, 7)) <=
           DaysInMonth(NumVal(SubSeq(s, 13, 16)), MonthOf(SubSeq(s, 9, 11)))
    /\ NumVal(SubSeq(s, 18, 19)) <= 23
    /\ NumVal(SubSeq(s, 21, 22)) <= 59
    /\ NumVal(SubSeq(s, 24, 25)) <= 61
    /\ NumVal(SubSeq(s, 30, 31)) <= 59

\* The datetime strptime returns (the fields strftime prints).
Strptime(s) ==
    [year   |-> NumVal(SubSeq(s, 13, 16)),
     month  |-> MonthOf(SubSeq(s, 9, 11)),
     day    |-> NumVal(SubSeq(s, 6, 7)),
     hour   |-> NumVal(SubSeq(s, 18, 19)),
     minute |-> NumVal(SubSeq(s, 21, 22))]

\* dt.strftime("%Y-%m-%d %H:%M")
Strftime(dt) ==
    Digits4(dt.year) \o <<"-">> \o Digits2(dt.month) \o <<"-">>
        \o Digits2(dt.day) \o <<" ">> \o Digits2(dt.hour) \o <<":">>
        \o Digits2(dt.minute)

\* as ReformatOrKeep, but a failed parse loses the text
ReformatOrBlank(text) ==
    IF MatchesDateFormat(text) THEN Strftime(Strptime(text)) ELSE <<>>

\* try: strptime(text, ...).strftime(...)  except: text
ReformatOrKeep(text) ==
    IF MatchesDateFormat(text) THEN Strftime(Strptime(text)) ELSE text

----------------------------------------------------------------------------
(* The feed normalizers *)

NoTitle == <<"N", "o", " ", "t", "i", "t", "l", "e">>
Untitled == <<"U", "n", "t", "i", "t", "l", "e", "d">>
NoSummary == <<"N", "o", " ", "s", "u", "m", "m", "a", "r", "y", " ", "a", "v", "a", "i", "l", "a", "b", "l", "e">>
NoDate == <<"N", "o", " ", "d", "a", "t", "e">>

\* as ArticleOfEntry, but updated is preferred to published
ArticleOfEntry_UpdatedFirst(entry) ==
    LET pub_date ==
            IF HasAttr(entry, "updated")
            THEN ReformatOrKeep(entry["updated"])
            ELSE IF HasAttr(entry, "published")
                 THEN ReformatOrKeep(entry["published"])
                 ELSE NoDate
    IN  [title     |-> Get(entry, "title", NoTitle),
         link      |-> Get(entry, "link", <<>>),
         summary   |-> Get(entry, "summary", NoSummary),
         published |-> pub_date]

\* src/app.py, the body of the loop of fetch_rss_feed: one entry's article
ArticleOfEntry(entry) ==
    LET pub_date ==
            IF HasAttr(entry, "published")
            THEN ReformatOrKeep(entry["published"])
            ELSE IF HasAttr(entry, "updated")
                 THEN ReformatOrKeep(entry["updated"])
                 ELSE NoDate
    IN  [title     |-> Get(entry, "title", NoTitle),
         link      |-> Get(entry, "link", <<>>),
         summary   |-> Get(entry, "summary", NoSummary),
         published |-> pub_date]

\* src/app.py fetch_rss_feed(url, max_entries): everything is inside one
\* try, and any exception becomes the failure dict.
fetch_rss_feed(parsed, limit) ==
    IF parsed.raises
    THEN Return([success |-> FALSE, error |-> parsed.error])
    ELSE Return([success |-> TRUE,
                 warned  |-> parsed.bozo,
                 entries |-> [i \in 1..Len(PySlice(parsed.entries, 0, limit)) |->
                                 ArticleOfEntry(parsed.entries[i])]])

\* src/src/app.py, the body of the loop of fetch_rss
ArticleOfEntryB(e) ==
    LET pub_raw == Get(e, "published", Get(e, "updated", <<>>))
    IN  [title     |-> Get(e, "title", Untitled),
         link      |-> Get(e, "link", <<>>),
         summary   |-> Get(e, "summary", NoSummary),
         published |-> ReformatOrKeep(pub_raw)]

\* as fetch_rss, but the slice starts at the second entry
fetch_rss_SkipsFirst(parsed, limit) ==
    IF parsed.raises
    THEN Raise(parsed.error)
    ELSE Return([i \in 1..Len(PySlice(parsed.entries, 1, limit)) |->
                    ArticleOfEntryB(PySlice(parsed.entries, 1, limit)[i])])

\* src/src/app.py fetch_rss(url, limit): no try around feedparser.parse, so
\* what it raises leaves fetch_rss.
fetch_rss(parsed, limit) ==
    IF parsed.raises
    THEN Raise(parsed.error)
    ELSE Return([i \in 1..Len(PySlice(parsed.entries, 0, limit)) |->
                    ArticleOfEntryB(parsed.entries[i])])

----------------------------------------------------------------------------
(* The feeds the normalizers are run on *)

MaxFeedLen == 3
MaxLimit == 4

PubGood == <<"M", "o", "n", ",", " ", "0", "2", " ", "J", "a", "n", " ", "2", "0", "0", "6", " ", "1", "5", ":", "0", "4", ":", "0", "5", " ", "-", "0", "7", "0", "0">>
PubBad == <<"2", "0", "0", "6", "-", "0", "1", "-", "0", "2", "T", "1", "5", ":", "0", "4", ":", "0", "5", "Z">>
UpdGood == <<"T", "u", "e", ",", " ", "3", "1", " ", "D", "e", "c", " ", "2", "0", "2", "4", " ", "2", "3", ":", "5", "9", ":", "0", "0", " ", "+", "0", "5", "3", "0">>
UpdBad == <<"F", "r", "i", ",", " ", "3", "0", " ", "F", "e", "b", " ", "2", "0", "2", "4", " ", "1", "0", ":", "0", "0", ":", "0", "0", " ", "+", "0", "0", "0", "0">>

EntryKeys == {"title", "link", "summary", "published", "updated"}
Restrict(f, K) == [k \in K |-> f[k]]

FullEntries ==
    [title : {<<"A", "I">>}, link : {<<"u">>}, summary : {<<"s">>},
     published : {PubGood, PubBad}, updated : {UpdGood, UpdBad}]

\* every combination of keys present or absent, with a well-formed or a
\* malformed date text
EntryKinds == {Restrict(f, K) : f \in FullEntries, K \in SUBSET EntryKeys}

\* the entries that longer feeds are made of
SampleEntries ==
    {[title |-> <<"A", "I">>, link |-> <<"u">>, summary |-> <<"s">>,
      published |-> PubGood],
     [title |-> <<"G", "P", "U">>, link |-> <<"v">>, published |-> PubBad,
      updated |-> UpdGood],
     [title |-> <<"L", "L", "M">>, summary |-> <<"t">>, updated |-> UpdBad],
     [link |-> <<"w">>, updated |-> UpdGood],
     <<>>}

RECURSIVE SeqsUpTo(_, _)
SeqsUpTo(S, n) ==
    IF n = 0 THEN {<<>>}
    ELSE LET shorter == SeqsUpTo(S, n - 1)
         IN  shorter \cup {Append(q, x) : q \in shorter, x \in S}

EntryLists ==
    {<<e>> : e \in EntryKinds} \cup SeqsUpTo(SampleEntries, MaxFeedLen)

TransportError == <<"t", "i", "m", "e", "d", " ", "o", "u", "t">>

ParsedFeeds ==
    {[raises |-> TRUE, error |-> TransportError]}
    \cup {[raises |-> FALSE, bozo |-> b, entries |-> es] :
             b \in BOOLEAN, es \in EntryLists}

NoOutcome == [raised |-> FALSE, val |-> <<>>]

FilterIdle ==
    /\ kw_lines = <<>> /\ articles = <<>>
    /\ filter_pc = "idle" /\ filter_out = <<>>

FeedIdle ==
    /\ feed = [raises |-> FALSE, bozo |-> FALSE, entries |-> <<>>]
    /\ max_entries = 0 /\ fetch_pc = "idle" /\ fetch_out = NoOutcome

PageIdle ==
    /\ entries = <<>> /\ page_size = 1 /\ page_pc = "idle"
    /\ total_pages = 0 /\ page_num = 0 /\ page_entries = <<>>

ApiIdle ==
    /\ secrets = <<>> /\ environ = <<>>
    /\ endpoint = [kind |-> "connection_error"]
    /\ api_pc = "idle" /\ api_out = NoOutcome /\ http_calls = 0

NothingShown == [widgets |-> {}, page_max |-> 0, page_value |-> 0]

DashBIdle ==
    /\ picked = NoneDict /\ analysis = NoneDict /\ analysis_prompt = None
    /\ page_selector = 1
    /\ b_shown = NothingShown
    /\ b_run = [trigger |-> "none", calls |-> 0, raised |-> FALSE,
                discarded |-> FALSE]

DashAIdle ==
    /\ current_page = 1 /\ st_keywords = <<>>
    /\ source_selector = FALSE /\ auto_refresh = FALSE
    /\ a_shown = NothingShown
    /\ a_run = [trigger |-> "none", calls |-> 0, ended |-> "complete",
                sliced |-> FALSE, page |-> 0, pages |-> 0, parity |-> 0]

DashIdle == DashBIdle /\ DashAIdle

InitFeed ==
    /\ feed \in ParsedFeeds
    /\ max_entries \in 0..MaxLimit
    /\ fetch_pc = "idle"
    /\ fetch_out = NoOutcome
    /\ FilterIdle /\ PageIdle /\ ApiIdle /\ DashIdle

\* src/app.py line 165: feed_data = fetch_rss_feed(selected_source_url)
Call_fetch_rss_feed ==
    /\ fetch_pc = "idle"
    /\ fetch_out' = fetch_rss_feed(feed, max_entries)
    /\ fetch_pc' = "fetch_rss_feed"
    /\ UNCHANGED <<feed, max_entries, filter_vars, page_vars, api_vars,
                   dash_vars>>

\* src/src/app.py line 66: articles = fetch_rss(src_url, max_articles)
Call_fetch_rss ==
    /\ fetch_pc = "idle"
    /\ fetch_out' = fetch_rss(feed, max_entries)
    /\ fetch_pc' = "fetch_rss"
    /\ UNCHANGED <<feed, max_entries, filter_vars, page_vars, api_vars,
                   dash_vars>>

NextFeed == Call_fetch_rss_feed \/ Call_fetch_rss

SpecFeed == InitFeed /\ [][NextFeed]_vars

----------------------------------------------------------------------------
(* Properties of the feed normalizers (SpecFeed) *)

ArticleKeys == {"title", "link", "summary", "published"}

\* a normalizer has run on a feed that parsed
Fetched == fetch_pc # "idle" /\ ~feed.raises

\* the article list the normalizer returned
OutArticles ==
    IF fetch_pc = "fetch_rss_feed" THEN fetch_out.val.entries ELSE fetch_out.val

TitlePlaceholder == IF fetch_pc = "fetch_rss_feed" THEN NoTitle ELSE Untitled

\* the date text an entry carries: published, else updated
HasDateText(e) == "published" \in DOMAIN e \/ "updated" \in DOMAIN e
DateText(e) == IF "published" \in DOMAIN e THEN e["published"] ELSE e["updated"]

\* what the date texts of the model must become
PubGoodIso == <<"2", "0", "0", "6", "-", "0", "1", "-", "0", "2", " ", "1", "5", ":", "0", "4">>
UpdGoodIso == <<"2", "0", "2", "4", "-", "1", "2", "-", "3", "1", " ", "2", "3", ":", "5", "9">>
MalformedTexts == {PubBad, UpdBad}
ExpectedPublished(text) ==
    IF text = PubGood THEN PubGoodIso
    ELSE IF text = UpdGood THEN UpdGoodIso
    ELSE text

\* article art carries the title, link, summary and date text of entry e
BuiltFrom(art, e) ==
    /\ "title" \in DOMAIN e => art.title = e["title"]
    /\ "link" \in DOMAIN e => art.link = e["link"]
    /\ "summary" \in DOMAIN e => art.summary = e["summary"]
    /\ HasDateText(e) => art.published = ExpectedPublished(DateText(e))

\* C1: for a feed of N entries and a limit M >= 0 the normalizer returns
\* exactly min(N, M) articles, the i-th built from the i-th entry.
C1_MinCountInOrder ==
    Fetched =>
        /\ ~fetch_out.raised
        /\ Len(OutArticles) = Min(Len(feed.entries), max_entries)
        /\ \A i \in 1..Len(OutArticles) :
               BuiltFrom(OutArticles[i], feed.entries[i])

\* a feed longer than the limit, cut to its first two, different, entries
C1_Witness ==
    /\ Fetched
    /\ Len(feed.entries) = 3 /\ max_entries = 2
    /\ Len(OutArticles) = 2
    /\ OutArticles[1] # OutArticles[2]
    /\ feed.entries[2] # feed.entries[3]

\* C8: when the transport or parser raises, the normalizer returns a failure
\* outcome carrying the error text, and nothing is raised to the script.
C8_FailureNotRaised ==
    (fetch_pc # "idle" /\ feed.raises) =>
        /\ ~fetch_out.raised
        /\ fetch_out.val.success = FALSE
        /\ fetch_out.val.error = feed.error

\* C9: a date text that does not match the strict pattern is kept verbatim,
\* and malformed dates never change how many articles are returned.
C9_MalformedDateKept ==
    Fetched =>
        /\ ~fetch_out.raised
        /\ Len(OutArticles) = Min(Len(feed.entries), max_entries)
        /\ \A i \in 1..Len(OutArticles) :
               (HasDateText(feed.entries[i])
                   /\ DateText(feed.entries[i]) \in MalformedTexts)
               => OutArticles[i].published = DateText(feed.entries[i])

\* a malformed date in the middle of a feed, the entries around it normalized
C9_Witness ==
    /\ Fetched
    /\ Len(feed.entries) = 3 /\ Len(OutArticles) = 3
    /\ HasDateText(feed.entries[2]) /\ DateText(feed.entries[2]) = UpdBad
    /\ OutArticles[2].published = UpdBad
    /\ OutArticles[1].published = PubGoodIso
    /\ OutArticles[3].published = UpdGoodIso

\* C10: every article has its four fields, each a text, whatever fields the
\* entry has: absent title and summary become the placeholders, an absent
\* link the empty string, published comes from published, else updated.
C10_FieldsNeverNull ==
    Fetched =>
        \A i \in 1..Len(OutArticles) :
            LET art == OutArticles[i]
                e == feed.entries[i]
            IN  /\ DOMAIN art = ArticleKeys
                /\ \A k \in ArticleKeys : art[k] \in Seq(STRING)
                /\ art.title = Get(e, "title", TitlePlaceholder)
                /\ art.summary = Get(e, "summary", NoSummary)
                /\ art.link = Get(e, "link", <<>>)
                /\ "published" \in DOMAIN e =>
                       art.published = ExpectedPublished(e["published"])
                /\ ("published" \notin DOMAIN e /\ "updated" \in DOMAIN e) =>
                       art.published = ExpectedPublished(e["updated"])

\* an entry with no field at all, and one with only a well-formed updated
C10_Witness ==
    /\ Fetched
    /\ Len(OutArticles) = 2
    /\ feed.entries[1] = <<>>
    /\ OutArticles[1].title = TitlePlaceholder
    /\ OutArticles[1].summary = NoSummary
    /\ OutArticles[1].link = <<>>
    /\ DOMAIN feed.entries[2] = {"link", "updated"}
    /\ OutArticles[2].published = UpdGoodIso

----------------------------------------------------------------------------
(* The keyword filters *)

UpperChars == <<"A", "B", "C", "D", "E", "F", "G", "H", "I", "J", "K", "L", "M", "N", "O", "P", "Q", "R", "S", "T", "U", "V", "W", "X", "Y", "Z">>
LowerChars == <<"a", "b", "c", "d", "e", "f", "g", "h", "i", "j", "k", "l", "m", "n", "o", "p", "q", "r", "s", "t", "u", "v", "w", "x", "y", "z">>

\* str.lower(), a character at a time
LowerChar(c) ==
    IF \E i \in 1..26 : UpperChars[i] = c
    THEN LowerChars[CHOOSE i \in 1..26 : UpperChars[i] = c]
    ELSE c
Lower(s) == [i \in 1..Len(s) |-> LowerChar(s[i])]

\* str.strip(): leading and trailing whitespace removed
WhiteSpace == {" ", "\t"}
RECURSIVE LStrip(_)
LStrip(s) == IF s # <<>> /\ Head(s) \in WhiteSpace THEN LStrip(Tail(s)) ELSE s
RECURSIVE RStrip(_)
RStrip(s) == IF s # <<>> /\ s[Len(s)] \in WhiteSpace
             THEN RStrip(SubSeq(s, 1, Len(s) - 1)) ELSE s
Strip(s) == RStrip(LStrip(s))

\* k in text: k occurs as a substring of text ("" occurs in every text)
Contains(k, text) ==
    \E i \in 0..(Len(text) - Len(k)) : SubSeq(text, i + 1, i + Len(k)) = k

\* [f(x) for x in seq if x.strip()]: the lines that are not blank
RECURSIVE NonBlank(_)
NonBlank(seq) ==
    IF seq = <<>> THEN <<>>
    ELSE IF Strip(Head(seq)) # <<>> THEN <<Head(seq)>> \o NonBlank(Tail(seq))
         ELSE NonBlank(Tail(seq))

\* src/app.py line 293 and src/src/app.py line 61, on the text area's lines:
\* keywords = [k.strip() for k in lines if k.strip()]
ParseKeywords(lines) ==
    LET kept == NonBlank(lines) IN [i \in 1..Len(kept) |-> Strip(kept[i])]

\* as filter_entries_by_keywords, without the two early returns
filter_entries_by_keywords_NoGuard(arts, keywords) ==
    LET kept == NonBlank(keywords)
        keywords_lower == [i \in 1..Len(kept) |-> Lower(Strip(kept[i]))]
        Keep(entry) ==
            LET title_lower == Lower(entry.title)
                summary_lower == Lower(entry.summary)
                Hit(keyword) == \/ Contains(keyword, title_lower)
                                \/ Contains(keyword, summary_lower)
            IN  \E i \in 1..Len(keywords_lower) : Hit(keywords_lower[i])
    IN  SelectSeq(arts, Keep)

\* src/app.py filter_entries_by_keywords(entries, keywords)
filter_entries_by_keywords(arts, keywords) ==
    IF keywords = <<>> THEN arts
    ELSE LET kept == NonBlank(keywords)
             keywords_lower == [i \in 1..Len(kept) |-> Lower(Strip(kept[i]))]
             Keep(entry) ==
                 LET title_lower == Lower(entry.title)
                     summary_lower == Lower(entry.summary)
                     Hit(keyword) == \/ Contains(keyword, title_lower)
                                     \/ Contains(keyword, summary_lower)
                 IN  \E i \in 1..Len(keywords_lower) : Hit(keywords_lower[i])
         IN  IF keywords_lower = <<>> THEN arts ELSE SelectSeq(arts, Keep)

\* src/src/app.py filter_by_keywords(entries, keywords)
filter_by_keywords(arts, keywords) ==
    IF keywords = <<>> THEN arts
    ELSE LET kws == [i \in 1..Len(keywords) |-> Lower(keywords[i])]
             Keep(art) ==
                 LET text == Lower(art.title \o <<" ">> \o art.summary)
                     Hit(k) == Contains(k, text)
                 IN  \E i \in 1..Len(kws) : Hit(kws[i])
         IN  SelectSeq(arts, Keep)

MaxArticles == 2
MaxKeywords == 2

FilterTitles == {<<"A", "I">>, <<"g", "o">>}
FilterSummaries == {<<>>, <<"a", "i">>, <<"u", "p">>}
FilterArticles ==
    [title : FilterTitles, link : {<<"u">>}, summary : FilterSummaries,
     published : {PubGoodIso}]

\* lines of the keyword text area: blank, padded, mixed case, with an inner
\* space, matching nothing
KeywordLines == {<<>>,
                 <<" ">>,
                 <<"a", "i">>,
                 <<"A", "I", " ">>,
                 <<" ", "G", "o">>,
                 <<"o", " ", "a">>,
                 <<"z", "z">>}

InitFilter ==
    /\ kw_lines \in SeqsUpTo(KeywordLines, MaxKeywords)
    /\ articles \in SeqsUpTo(FilterArticles, MaxArticles)
    /\ filter_pc = "idle"
    /\ filter_out = <<>>
    /\ FeedIdle /\ PageIdle /\ ApiIdle /\ DashIdle

\* src/app.py lines 293, 304-305 and 169-170: the keywords applied from the
\* text area are filtered with on the next run
Call_filter_entries_by_keywords ==
    /\ filter_pc = "idle"
    /\ filter_out' = filter_entries_by_keywords(articles, ParseKeywords(kw_lines))
    /\ filter_pc' = "filter_entries_by_keywords"
    /\ UNCHANGED <<kw_lines, articles, feed_vars, page_vars, api_vars,
                   dash_vars>>

\* src/src/app.py lines 61 and 67
Call_filter_by_keywords ==
    /\ filter_pc = "idle"
    /\ filter_out' = filter_by_keywords(articles, ParseKeywords(kw_lines))
    /\ filter_pc' = "filter_by_keywords"
    /\ UNCHANGED <<kw_lines, articles, feed_vars, page_vars, api_vars,
                   dash_vars>>

NextFilter == Call_filter_entries_by_keywords \/ Call_filter_by_keywords

SpecFilter == InitFilter /\ [][NextFilter]_vars

----------------------------------------------------------------------------
(* Properties of the keyword filters (SpecFilter) *)

\* a line of whitespace only (or an empty line)
IsBlankLine(line) == \A j \in 1..Len(line) : line[j] \in WhiteSpace

\* keyword k occurs, case-insensitively, in the title or in the summary of a
MatchesArticle(k, a) ==
    \/ Contains(Lower(k), Lower(a.title))
    \/ Contains(Lower(k), Lower(a.summary))

\* C2: with a non-empty list of trimmed keywords the filter returns, in
\* order, exactly the articles in which some keyword occurs
\* case-insensitively in the title or in the summary.
C2_KeptIffKeywordInTitleOrSummary ==
    (filter_pc # "idle" /\ ParseKeywords(kw_lines) # <<>>) =>
        LET kws == ParseKeywords(kw_lines)
            Kept(a) == \E i \in 1..Len(kws) : MatchesArticle(kws[i], a)
        IN  filter_out = SelectSeq(articles, Kept)

\* C3: when every keyword line is blank (or there is none) the filter
\* returns the article list unchanged.
C3_NoKeywordsIsIdentity ==
    (filter_pc # "idle" /\ \A i \in 1..Len(kw_lines) : IsBlankLine(kw_lines[i]))
        => filter_out = articles

\* blank lines only, two articles, all returned by src/app.py's filter
C3_Witness ==
    /\ filter_pc = "filter_entries_by_keywords"
    /\ Len(kw_lines) = 2
    /\ \A i \in 1..Len(kw_lines) : IsBlankLine(kw_lines[i])
    /\ kw_lines[1] # <<>>
    /\ Len(articles) = 2
    /\ filter_out = articles

----------------------------------------------------------------------------
(* The paginators *)

\* math.ceil(a / b) for integers a >= 0, b > 0
CeilDiv(a, b) == IF (a % b) = 0 THEN a \div b ELSE (a \div b) + 1

\* as paginate_entries, but rounding down and adding a page
paginate_entries_FloorPlusOne(ents, size) ==
    <<Len(ents), IF Len(ents) > 0 THEN (Len(ents) \div size) + 1 ELSE 1>>

\* src/app.py paginate_entries(entries, page_size):
\* returns (total_entries, total_pages)
paginate_entries(ents, size) ==
    LET total_entries == Len(ents)
    IN  <<total_entries,
          IF total_entries > 0 THEN CeilDiv(total_entries, size) ELSE 1>>

\* as get_page_entries, but counting pages from zero
get_page_entries_FromZero(ents, num, size) ==
    PySlice(ents, num * size, num * size + size)

\* src/app.py get_page_entries(entries, page_num, page_size)
get_page_entries(ents, num, size) ==
    LET start_idx == (num - 1) * size
        end_idx == start_idx + size
    IN  PySlice(ents, start_idx, end_idx)

\* src/src/app.py line 70
PER_PAGE == 5

\* src/src/app.py line 71
total_pages_B(filt) == Max(1, CeilDiv(Len(filt), PER_PAGE))

\* src/src/app.py lines 73-74
page_articles(filt, page) ==
    LET start == (page - 1) * PER_PAGE
        end == page * PER_PAGE
    IN  PySlice(filt, start, end)

MaxCount == 24
MaxPageSize == 6

\* the filtered list, its articles named by their position in it
InitPage ==
    /\ \E n \in 0..MaxCount : entries = [i \in 1..n |-> i]
    /\ page_size \in 1..MaxPageSize
    /\ page_pc = "idle"
    /\ total_pages = 0 /\ page_num = 0 /\ page_entries = <<>>
    /\ FeedIdle /\ FilterIdle /\ ApiIdle /\ DashIdle

\* src/app.py line 174
Call_paginate_entries ==
    /\ page_pc = "idle"
    /\ total_pages' = paginate_entries(entries, page_size)[2]
    /\ page_pc' = "paginate_entries"
    /\ UNCHANGED <<entries, page_size, page_num, page_entries,
                   feed_vars, filter_vars, api_vars,
                   dash_vars>>

\* src/app.py line 204, for a page number in 1..total_pages
Call_get_page_entries ==
    /\ page_pc \in {"paginate_entries", "get_page_entries"}
    /\ \E n \in 1..total_pages :
           /\ page_num' = n
           /\ page_entries' = get_page_entries(entries, n, page_size)
    /\ page_pc' = "get_page_entries"
    /\ UNCHANGED <<entries, page_size, total_pages, feed_vars, filter_vars,
                   api_vars,
                   dash_vars>>

\* src/src/app.py lines 70-74: the page count, the page picked in the number
\* input (1..total_pages) and its slice
Script_page_articles ==
    /\ page_pc = "idle"
    /\ page_size' = PER_PAGE
    /\ total_pages' = total_pages_B(entries)
    /\ \E page \in 1..total_pages_B(entries) :
           /\ page_num' = page
           /\ page_entries' = page_articles(entries, page)
    /\ page_pc' = "page_articles"
    /\ UNCHANGED <<entries, feed_vars, filter_vars, api_vars,
                   dash_vars>>

NextPage ==
    Call_paginate_entries \/ Call_get_page_entries \/ Script_page_articles

SpecPage == InitPage /\ [][NextPage]_vars

----------------------------------------------------------------------------
(* Properties of the paginators (SpecPage) *)

\* C4: totalPages = max(1, ceil(count / pageSize)): the least k >= 1 with
\* k * pageSize >= count; 1 page for no article, 5 pages for 23 by 5.
C4_TotalPages ==
    page_pc # "idle" =>
        /\ total_pages >= 1
        /\ total_pages * page_size >= Len(entries)
        /\ total_pages > 1 => (total_pages - 1) * page_size < Len(entries)
        /\ Len(entries) = 0 => total_pages = 1
        /\ (Len(entries) = 23 /\ page_size = 5) => total_pages = 5

\* 23 articles, 5 a page: paginate_entries counts 5 pages
C4_Witness ==
    /\ page_pc = "paginate_entries"
    /\ Len(entries) = 23 /\ page_size = 5
    /\ total_pages = 5

\* page n as the paginator that ran computes it
PageOf(n) ==
    IF page_pc = "page_articles" THEN page_articles(entries, n)
    ELSE get_page_entries(entries, n, page_size)

RECURSIVE PagesUpTo(_)
PagesUpTo(n) == IF n = 0 THEN <<>> ELSE PagesUpTo(n - 1) \o PageOf(n)

\* C5: page n of 1..totalPages holds exactly the articles at zero-based
\* positions [(n-1)*pageSize, min(n*pageSize, count)), in order; the pages
\* together are the list; every page but the last is full, and the last
\* has count - (totalPages-1)*pageSize articles.
C5_PageSlice ==
    page_pc \in {"get_page_entries", "page_articles"} =>
        LET first == (page_num - 1) * page_size
            last == Min(page_num * page_size, Len(entries))
        IN  /\ page_num \in 1..total_pages
            /\ Len(page_entries) = last - first
            /\ \A j \in 1..Len(page_entries) :
                   page_entries[j] = entries[first + j]
            /\ page_num < total_pages => Len(page_entries) = page_size
            /\ page_num = total_pages =>
                   Len(page_entries) =
                       Len(entries) - (total_pages - 1) * page_size
            /\ PagesUpTo(total_pages) = entries

\* 23 articles, 5 a page: the fifth and last page holds articles 21..23
C5_Witness ==
    /\ page_pc = "get_page_entries"
    /\ Len(entries) = 23 /\ page_size = 5
    /\ page_num = 5 /\ total_pages = 5
    /\ page_entries = <<21, 22, 23>>

----------------------------------------------------------------------------
(* The summarization clients: call_openrouter_api of src/news_analyzer.py
   (call_openrouter_api_A, reads st.secrets in the call) and of
   src/src/news_analyzer.py (call_openrouter_api_B, reads the module-level
   API_KEY) *)

\* decoded JSON values
JDict(f) == [t |-> "dict", v |-> f]
JList(q) == [t |-> "list", v |-> q]
JStr(text) == [t |-> "str", v |-> text]
JNull == [t |-> "null"]

Exc(type, arg) == [type |-> type, arg |-> arg]
Ok(v) == [ok |-> TRUE, val |-> v]
Err(e) == [ok |-> FALSE, exc |-> e]

\* v[k] for a string key k
GetItemStr(v, k) ==
    IF v.t = "dict"
    THEN (IF k \in DOMAIN v.v THEN Ok(v.v[k]) ELSE Err(Exc("KeyError", k)))
    ELSE IF v.t \in {"list", "str"}
         THEN Err(Exc("TypeError", "indices must be integers"))
         ELSE Err(Exc("TypeError", "not subscriptable"))

\* v[0]
GetItem0(v) ==
    IF v.t = "dict" THEN Err(Exc("KeyError", "0"))
    ELSE IF v.t = "list"
         THEN (IF Len(v.v) > 0 THEN Ok(v.v[1])
               ELSE Err(Exc("IndexError", "list index out of range")))
         ELSE IF v.t = "str"
              THEN (IF Len(v.v) > 0 THEN Ok(JStr(<<v.v[1]>>))
                    ELSE Err(Exc("IndexError", "string index out of range")))
              ELSE Err(Exc("TypeError", "not subscriptable"))

\* data["choices"][0]["message"]["content"]
ExtractContent(data) ==
    LET choices == GetItemStr(data, "choices")
        first == IF choices.ok THEN GetItem0(choices.val) ELSE choices
        message == IF first.ok THEN GetItemStr(first.val, "message") ELSE first
    IN  IF message.ok THEN GetItemStr(message.val, "content") ELSE message

\* src/src/news_analyzer.py line 70, src/news_analyzer.py line 68: text[:200]
SnipLen == 200

ApiKeyName == "OPENROUTER_API_KEY"

\* requests.post(...) followed by raise_for_status(): the response, or the
\* exception raised
PostAndRaiseForStatus(ep) ==
    IF ep.kind = "connection_error"
    THEN Err(Exc("ConnectionError", "connection refused"))
    ELSE IF ep.status >= 400 /\ ep.status < 600
         THEN Err(Exc("HTTPError", ep.status))
         ELSE Ok(ep)

Failure(label, e) == [ok |-> FALSE, error |-> [label |-> label, detail |-> e]]
FailureWithSnip(label, e, snip) ==
    [ok |-> FALSE, error |-> [label |-> label, detail |-> e, snip |-> snip]]
Success(content) == [ok |-> TRUE, response |-> content]

JSONDecodeError == Exc("JSONDecodeError", "Expecting value")

\* src/news_analyzer.py call_openrouter_api: the outcome and the number of
\* requests.post calls made
call_openrouter_api_A(secr, ep) ==
    IF ApiKeyName \notin DOMAIN secr
    THEN [out |-> Return(Failure("API call failed", Exc("KeyError", ApiKeyName))),
          posts |-> 0]
    ELSE LET response == PostAndRaiseForStatus(ep)
             content == ExtractContent(ep.json)
             out ==
                 IF ~response.ok
                 THEN Failure("API call failed", response.exc)
                 ELSE IF ~ep.decodes
                 THEN FailureWithSnip("JSON parsing failed", JSONDecodeError,
                                      PySlice(ep.text, 0, SnipLen))
                 ELSE IF content.ok THEN Success(content.val)
                 ELSE IF content.exc.type \in {"KeyError", "IndexError"}
                 THEN Failure("Invalid API response structure", content.exc)
                 ELSE Failure("API call failed", content.exc)
         IN  [out |-> Return(out), posts |-> 1]

\* src/src/news_analyzer.py line 38:
\* API_KEY = st.secrets.get("OPENROUTER_API_KEY", os.getenv("OPENROUTER_API_KEY"))
API_KEY(secr, env) == Get(secr, ApiKeyName, Get(env, ApiKeyName, None))

\* not x, for x a text or None
Falsy(x) == x = None \/ x = <<>>

\* src/src/news_analyzer.py call_openrouter_api: the outcome and the number
\* of requests.post calls made
call_openrouter_api_B(key, ep) ==
    IF Falsy(key)
    THEN [out |-> Return([ok |-> FALSE,
                          error |-> [label |-> "OPENROUTER_API_KEY missing in secrets / env-vars"]]),
          posts |-> 0]
    ELSE LET resp == PostAndRaiseForStatus(ep)
             content == ExtractContent(ep.json)
             out ==
                 IF ~resp.ok
                 THEN Return(Failure("HTTP error", resp.exc))
                 ELSE IF ~ep.decodes
                 THEN Return([ok |-> FALSE,
                              error |-> [label |-> "Non-JSON response",
                                         snip |-> PySlice(ep.text, 0, SnipLen)]])
                 ELSE IF content.ok THEN Return(Success(content.val))
                 ELSE IF content.exc.type \in {"KeyError", "IndexError"}
                 THEN Return(Failure("Malformed JSON structure", content.exc))
                 ELSE Raise(content.exc)
         IN  [out |-> out, posts |-> 1]

\* the configurations of one key source: no key, an empty key, a key
KeyMappings ==
    {<<>>,
     [k \in {ApiKeyName} |-> <<>>],
     [k \in {ApiKeyName} |-> <<"s", "k", "-", "1">>]}

MaxBodyLen == 203

AnswerText == <<"F", "e", "e", "d", " ", "T", "i", "t", "l", "e", ":", " ", "A", "I">>
HtmlBody == <<"<", "h", "t", "m", "l", ">">>
LongBody == [i \in 1..MaxBodyLen |-> "x"]

\* the decoded bodies: the expected shape, and shapes that lack
\* choices[0].message.content
GoodJson ==
    JDict([choices |-> JList(<<JDict([message |->
               JDict([content |-> JStr(AnswerText)])])>>)])
DecodedBodies ==
    {GoodJson,
     JDict([choices |-> JList(<<>>)]),
     JDict(<<>>),
     JDict([error |-> JDict([message |-> JStr(<<"n", "o">>)])]),
     JDict([choices |-> JList(<<JDict(<<>>)>>)]),
     JDict([choices |-> JList(<<JDict([message |-> JDict(<<>>)])>>)]),
     JDict([choices |-> JNull]),
     JDict([choices |-> JStr(<<"n", "o">>)]),
     JDict([choices |-> JList(<<JDict([message |-> JNull])>>)]),
     JList(<<>>),
     JNull}

\* what the endpoint does with a request: no connection, an error status, a
\* 200 whose body is not JSON, a 200 whose body decodes
Endpoints ==
    {[kind |-> "connection_error"]}
    \cup {[kind |-> "response", status |-> st, decodes |-> FALSE,
           text |-> HtmlBody, json |-> JNull] : st \in {404, 500}}
    \cup {[kind |-> "response", status |-> 200, decodes |-> FALSE,
           text |-> body, json |-> JNull] : body \in {<<>>, HtmlBody, LongBody}}
    \cup {[kind |-> "response", status |-> 200, decodes |-> TRUE,
           text |-> <<>>, json |-> data] : data \in DecodedBodies}

InitApi ==
    /\ secrets \in KeyMappings
    /\ environ \in KeyMappings
    /\ endpoint \in Endpoints
    /\ api_pc = "idle" /\ api_out = NoOutcome /\ http_calls = 0
    /\ FeedIdle /\ FilterIdle /\ PageIdle /\ DashIdle

\* a call of src/news_analyzer.py call_openrouter_api(prompt)
Call_openrouter_api_A ==
    /\ api_pc = "idle"
    /\ LET r == call_openrouter_api_A(secrets, endpoint)
       IN  /\ api_out' = r.out
           /\ http_calls' = http_calls + r.posts
    /\ api_pc' = "A"
    /\ UNCHANGED <<secrets, environ, endpoint, feed_vars, filter_vars, page_vars,
                   dash_vars>>

\* src/src/app.py line 114: a call of src/src/news_analyzer.py
\* call_openrouter_api(prompt)
Call_openrouter_api_B ==
    /\ api_pc = "idle"
    /\ LET r == call_openrouter_api_B(API_KEY(secrets, environ), endpoint)
       IN  /\ api_out' = r.out
           /\ http_calls' = http_calls + r.posts
    /\ api_pc' = "B"
    /\ UNCHANGED <<secrets, environ, endpoint, feed_vars, filter_vars, page_vars,
                   dash_vars>>

NextApi == Call_openrouter_api_A \/ Call_openrouter_api_B

SpecApi == InitApi /\ [][NextApi]_vars

----------------------------------------------------------------------------
(* Properties of the summarization clients (SpecApi) *)

\* neither st.secrets nor the environment holds a non-empty key
NoKeyConfigured ==
    /\ Falsy(Get(secrets, ApiKeyName, None))
    /\ Falsy(Get(environ, ApiKeyName, None))

ReturnedFailure == ~api_out.raised /\ api_out.val.ok = FALSE

\* the error message names the missing key
IdentifiesMissingKey(err) ==
    \/ err.label = "OPENROUTER_API_KEY missing in secrets / env-vars"
    \/ /\ "detail" \in DOMAIN err
       /\ err.detail.type = "KeyError"
       /\ err.detail.arg = ApiKeyName

\* C6: with no non-empty API key configured, call_openrouter_api returns a
\* failure that identifies the missing credentials and sends no request.
C6_NoKeyNoRequest ==
    (api_pc # "idle" /\ NoKeyConfigured) =>
        /\ ReturnedFailure
        /\ IdentifiesMissingKey(api_out.val.error)
        /\ http_calls = 0

\* the kind of failure an error message announces
ReasonOf(err) ==
    IF err.label \in {"HTTP error", "API call failed"} THEN "http"
    ELSE IF err.label \in {"Non-JSON response", "JSON parsing failed"}
         THEN "decode"
         ELSE IF err.label \in {"Malformed JSON structure",
                                "Invalid API response structure"}
              THEN "structure"
              ELSE "credentials"

\* data has choices[0].message.content
HasContent(data) ==
    /\ data.t = "dict" /\ "choices" \in DOMAIN data.v
    /\ data.v.choices.t = "list" /\ Len(data.v.choices.v) > 0
    /\ data.v.choices.v[1].t = "dict"
    /\ "message" \in DOMAIN data.v.choices.v[1].v
    /\ data.v.choices.v[1].v.message.t = "dict"
    /\ "content" \in DOMAIN data.v.choices.v[1].v.message.v
ContentOf(data) == data.v.choices.v[1].v.message.v.content

TransportFailed ==
    endpoint.kind = "connection_error" \/ endpoint.status \notin 200..299

\* C7: each endpoint outcome has its own failure reason: no connection or a
\* non-2xx status an HTTP error; an undecodable 2xx body a decode error with
\* at most the first 200 characters of the body; a decoded body without
\* choices[0].message.content a structure error; and a body with it, and
\* only that, success with exactly that content.
C7_OutcomeToReason ==
    (api_pc # "idle" /\ http_calls = 1) =>
        IF TransportFailed
        THEN /\ ReturnedFailure
             /\ ReasonOf(api_out.val.error) = "http"
             /\ api_out.val.error.detail.type \in {"ConnectionError", "HTTPError"}
        ELSE IF ~endpoint.decodes
        THEN /\ ReturnedFailure
             /\ ReasonOf(api_out.val.error) = "decode"
             /\ Len(api_out.val.error.snip) <= 200
             /\ api_out.val.error.snip =
                    SubSeq(endpoint.text, 1, Min(200, Len(endpoint.text)))
        ELSE IF ~HasContent(endpoint.json)
        THEN /\ ReturnedFailure
             /\ ReasonOf(api_out.val.error) = "structure"
        ELSE /\ ~api_out.raised
             /\ api_out.val.ok = TRUE
             /\ api_out.val.response = ContentOf(endpoint.json)

\* C12: call_openrouter_api never raises to its caller: whatever the
\* endpoint answers, a decoded body of an unexpected shape included, it
\* returns ok = True with a response or ok = False with an error message.
C12_NeverRaises ==
    api_pc # "idle" =>
        /\ ~api_out.raised
        /\ api_out.val.ok => "response" \in DOMAIN api_out.val
        /\ ~api_out.val.ok => "error" \in DOMAIN api_out.val

----------------------------------------------------------------------------
(* The dashboard of src/src/app.py.  Streamlit runs the script from top to *)
(* bottom once for every user action; one action below is one script run.  *)
(* A button returns True only in the run its click started; a widget the   *)
(* user can act on is one the last run left on the page.                   *)

\* src/src/news_analyzer.py build_prompt(url, published): PROMPT_TMPL with
\* published and url filled in; each fixed stretch of the template is kept
\* as one element
build_prompt(url, published) ==
    <<"# Technology News Analysis Prompt Template ... Published Date: ">>
    \o published \o <<"\n\n## Article to Analyse\n">> \o url \o <<"\n">>

\* as OnSelect, but the earlier analysis is kept
OnSelect_KeepsAnalysis(ss, art) == [ss EXCEPT !.picked = art]

\* src/src/app.py lines 90-92, the body of `if st.button("Select", ...)`
OnSelect(ss, art) ==
    [ss EXCEPT !.picked = art, !.analysis = NoneDict, !.prompt = None]

\* src/src/app.py lines 111-114, the body of `if st.button("Analyze News")`:
\* the session after it, the requests made and whether the call raised
OnAnalyze(ss, key, ep) ==
    LET art == ss.picked
        prompt == build_prompt(art.link, art.published)
        r == call_openrouter_api_B(key, ep)
    IN  [ss |-> IF r.out.raised THEN ss
                ELSE [ss EXCEPT !.analysis = r.out.val, !.prompt = prompt],
         posts |-> r.posts,
         raised |-> r.out.raised]

\* src/src/app.py line 72: the value of the "Page" number input.  Its
\* bounds are part of the widget's identity: with the bounds of the last run
\* it holds what the user left in it, with other bounds it is a new widget
\* holding its default, 1.
PageValue(shown, held, total) ==
    IF shown.page_max = total THEN held ELSE 1

\* src/src/app.py lines 70-74 and 83: the page count, the page and the
\* positions in filt_articles of the cards of that page
PageOfRun(shown, held, filt_articles) ==
    LET total == total_pages_B(filt_articles)
        page == PageValue(shown, held, total)
        start == (page - 1) * PER_PAGE
    IN  [total |-> total, page |-> page,
         cards |-> {start + i - 1 :
                       i \in 1..Len(page_articles(filt_articles, page))}]

\* src/src/app.py lines 83-95: the cards, of which at most one has its
\* Select button clicked
AfterCards(ss, trig, pg, filt_articles) ==
    IF trig.kind = "select" /\ trig.idx \in pg.cards
    THEN OnSelect([ss EXCEPT !.page = pg.page], filt_articles[trig.idx + 1])
    ELSE [ss EXCEPT !.page = pg.page]

\* src/src/app.py lines 98-124, the rest of a script run whose fetch did not
\* raise.  ss: the session state after the cards; pg: the page shown;
\* an: what the Analyze handler did, if it ran.
AfterNavigation(ss, trig, pg, an) ==
    LET \* lines 100-104: page_selector is assigned after the widget with
        \* that key was instantiated, which Streamlit refuses
        nav_raises == \/ trig.kind = "previous" /\ pg.page > 1
                      \/ trig.kind = "next" /\ pg.page < pg.total
        sel_keys == {<<"select", i>> : i \in pg.cards}
        nav_keys == IF trig.kind = "previous" /\ pg.page > 1
                    THEN {<<"previous">>}
                    ELSE {<<"previous">>, <<"next">>}
        panel == ss.picked # NoneDict
    IN  IF nav_raises
        THEN [ss |-> ss,
              shown |-> [widgets |-> sel_keys \cup nav_keys,
                         page_max |-> pg.total, page_value |-> pg.page],
              calls |-> 1, raised |-> TRUE]
        ELSE [ss |-> an.ss,
              shown |-> [widgets |-> sel_keys \cup nav_keys
                             \cup (IF panel THEN {<<"analyze">>} ELSE {}),
                         page_max |-> pg.total, page_value |-> pg.page],
              calls |-> 1 + an.posts, raised |-> an.raised]

\* src/src/app.py lines 107-114: the analysis panel
AnalysisPanel(ss, trig, key, ep) ==
    IF ss.picked # NoneDict /\ trig.kind = "analyze"
    THEN OnAnalyze(ss, key, ep)
    ELSE [ss |-> ss, posts |-> 0, raised |-> FALSE]

(* What the dashboards are run on *)

MaxDashLen == 6

\* the entries the feeds of a session are made of
DashEntries ==
    <<[title |-> <<"A", "I">>, link |-> <<"u">>, summary |-> <<"s">>,
       published |-> PubGood],
      [title |-> <<"G", "P", "U">>, link |-> <<"v">>, published |-> PubBad,
       updated |-> UpdGood],
      [title |-> <<"L", "L", "M">>, link |-> <<"w">>, summary |-> <<"t">>,
       updated |-> UpdBad]>>

\* a feed of n entries, starting at the entry after the first `off`
FeedOfLength(n, off) ==
    [raises |-> FALSE, bozo |-> FALSE,
     entries |-> [i \in 1..n |-> DashEntries[((i - 1 + off) % 3) + 1]]]

\* what feedparser.parse does in a run: the feed changes between runs
DashFeeds ==
    {[raises |-> TRUE, error |-> TransportError]}
    \cup {FeedOfLength(n, off) : n \in {0, 1, MaxDashLen}, off \in {0, 1}}

\* the contents of the keyword text area that are used
DashKeywordLines == {<<>>, <<<<"a", "i">>, <<" ">>, <<"L", "L", "M", " ">>>>}

\* what the endpoint does with the request of a run
DashEndpoints ==
    {[kind |-> "connection_error"],
     [kind |-> "response", status |-> 200, decodes |-> TRUE,
      text |-> <<>>, json |-> GoodJson],
     [kind |-> "response", status |-> 200, decodes |-> TRUE,
      text |-> <<>>, json |-> JNull]}

\* the session state of src/src/app.py as one record
SessionB ==
    [picked |-> picked, analysis |-> analysis, prompt |-> analysis_prompt,
     page |-> page_selector]

\* before the first script run: the slider at its default, the text area
\* empty, the key as the process found it at import
InitDashB ==
    /\ DashBIdle /\ DashAIdle
    /\ feed = [raises |-> FALSE, bozo |-> FALSE, entries |-> <<>>]
    /\ max_entries = 50 /\ fetch_pc = "idle" /\ fetch_out = NoOutcome
    /\ FilterIdle /\ PageIdle
    /\ secrets \in KeyMappings
    /\ environ = <<>>
    /\ endpoint = [kind |-> "connection_error"]
    /\ api_pc = "idle" /\ api_out = NoOutcome /\ http_calls = 0

\* one script run of src/src/app.py started by trig, with the text area
\* holding lines, reading the feed parsed and the endpoint ep; the slider is
\* left at its default
RunB(trig, lines, parsed, ep) ==
    /\ kw_lines' = lines
    /\ UNCHANGED <<feed, max_entries, fetch_pc, fetch_out, articles, filter_pc,
                   filter_out, page_vars, api_vars, dash_a_vars>>
    /\ \E fetched \in {fetch_rss(parsed, max_entries)} :
        IF fetched.raised
        THEN \* line 66: the exception ends the run before any card
             /\ UNCHANGED <<picked, analysis, analysis_prompt, page_selector>>
             /\ b_shown' = NothingShown
             /\ b_run' = [trigger |-> trig.kind, calls |-> 1, raised |-> TRUE,
                          discarded |-> b_run.discarded]
        ELSE
        \E filt_articles \in {filter_by_keywords(fetched.val,
                                                 ParseKeywords(lines))} :
        \E pg \in {PageOfRun(b_shown,
                             IF trig.kind = "page" THEN trig.page
                             ELSE page_selector,
                             filt_articles)} :
        \E ss \in {AfterCards(SessionB, trig, pg, filt_articles)} :
        \E an \in {AnalysisPanel(ss, trig, API_KEY(secrets, environ), ep)} :
        \E r \in {AfterNavigation(ss, trig, pg, an)} :
            /\ picked' = r.ss.picked
            /\ analysis' = r.ss.analysis
            /\ analysis_prompt' = r.ss.prompt
            /\ page_selector' = r.ss.page
            /\ b_shown' = r.shown
            /\ b_run' = [trigger |-> trig.kind, calls |-> r.calls,
                         raised |-> r.raised,
                         discarded |-> \/ b_run.discarded
                                       \/ /\ analysis # NoneDict
                                          /\ r.ss.analysis = NoneDict]

\* the page is loaded, or the source or the keyword text area is changed
\* (lines 50-61)
Change_Sidebar_B ==
    \E lines \in DashKeywordLines, parsed \in DashFeeds :
        RunB([kind |-> "widget"], lines, parsed, [kind |-> "connection_error"])

\* a page number is entered in the "Page" input (line 72)
Enter_Page_B ==
    \E p \in 1..b_shown.page_max, parsed \in DashFeeds :
        /\ p # page_selector
        /\ RunB([kind |-> "page", page |-> p], kw_lines, parsed,
                [kind |-> "connection_error"])

\* the Select button of a card is clicked (line 90)
Click_Select_B ==
    \E k \in 0..MaxDashLen, parsed \in DashFeeds :
        /\ <<"select", k>> \in b_shown.widgets
        /\ RunB([kind |-> "select", idx |-> k], kw_lines, parsed,
                [kind |-> "connection_error"])

\* Previous is clicked (line 100)
Click_Previous_B ==
    \E parsed \in DashFeeds :
        /\ <<"previous">> \in b_shown.widgets
        /\ RunB([kind |-> "previous"], kw_lines, parsed,
                [kind |-> "connection_error"])

\* Next is clicked (line 103)
Click_Next_B ==
    \E parsed \in DashFeeds :
        /\ <<"next">> \in b_shown.widgets
        /\ RunB([kind |-> "next"], kw_lines, parsed,
                [kind |-> "connection_error"])

\* Analyze News is clicked (line 111)
Click_Analyze_B ==
    \E parsed \in DashFeeds, ep \in DashEndpoints :
        /\ <<"analyze">> \in b_shown.widgets
        /\ RunB([kind |-> "analyze"], kw_lines, parsed, ep)

NextDashB ==
    \/ Change_Sidebar_B
    \/ Enter_Page_B
    \/ Click_Select_B
    \/ Click_Previous_B
    \/ Click_Next_B
    \/ Click_Analyze_B

SpecDashB == InitDashB /\ [][NextDashB]_vars

\* C14: whenever session_state.analysis is not empty, it is the outcome of
\* the request built from the link and the published date of the article
\* in session_state.picked.
C14_AnalysisOfPicked ==
    analysis # NoneDict =>
        /\ picked # NoneDict
        /\ analysis_prompt = build_prompt(picked.link, picked.published)

\* an analysis is shown after an earlier one was discarded by a Select
C14_Witness ==
    /\ analysis # NoneDict
    /\ b_run.discarded
    /\ b_run.trigger = "analyze"

\* C11: a script run started by one user action makes at most one blocking
\* external call, a feed fetch or a summarization request.
C11_OneCallPerAction == b_run.calls <= 1

----------------------------------------------------------------------------
(* The dashboard of src/app.py.  One action is one run of main(): a run    *)
(* ends when main returns ("complete"), when st.rerun() is called, which   *)
(* stops the run and starts the next one at once ("rerun"), or when an     *)
(* exception leaves main ("raised").                                       *)

\* src/app.py lines 321-339: the keyword lists of the four quick filters
QuickFilters ==
    <<<<<<"A", "I">>,
        <<"a", "r", "t", "i", "f", "i", "c", "i", "a", "l", " ", "i", "n", "t", "e", "l", "l", "i", "g", "e", "n", "c", "e">>,
        <<"m", "a", "c", "h", "i", "n", "e", " ", "l", "e", "a", "r", "n", "i", "n", "g">>,
        <<"n", "e", "u", "r", "a", "l">>,
        <<"d", "e", "e", "p", " ", "l", "e", "a", "r", "n", "i", "n", "g">>>>,
      <<<<"r", "o", "b", "o", "t">>,
        <<"r", "o", "b", "o", "t", "i", "c", "s">>,
        <<"a", "u", "t", "o", "m", "a", "t", "i", "o", "n">>,
        <<"a", "u", "t", "o", "n", "o", "m", "o", "u", "s">>>>,
      <<<<"G", "P", "T">>,
        <<"L", "L", "M">>,
        <<"l", "a", "n", "g", "u", "a", "g", "e", " ", "m", "o", "d", "e", "l">>,
        <<"C", "h", "a", "t", "G", "P", "T">>,
        <<"C", "l", "a", "u", "d", "e">>,
        <<"G", "e", "m", "i", "n", "i">>>>,
      <<<<"r", "e", "s", "e", "a", "r", "c", "h">>,
        <<"b", "r", "e", "a", "k", "t", "h", "r", "o", "u", "g", "h">>,
        <<"s", "t", "u", "d", "y">>,
        <<"p", "a", "p", "e", "r">>,
        <<"d", "e", "v", "e", "l", "o", "p", "m", "e", "n", "t">>>>>>

\* the buttons of the right column that are always enabled (lines 304-352)
RightWidgets ==
    {<<"apply">>, <<"clear">>, <<"quick_filter">>, <<"auto_refresh">>,
     <<"refresh">>}

\* src/app.py lines 165-175: the fetch, the filter and the counts.  Nothing
\* is paginated when no source is selected or the fetch failed.
Paginated(sel, kws, feed_data) ==
    IF ~sel \/ ~feed_data.success
    THEN [shown |-> FALSE, total_entries |-> 0, pages |-> 0]
    ELSE LET filtered_entries ==
                 filter_entries_by_keywords(feed_data.entries, kws)
         IN  [shown |-> TRUE,
              total_entries |-> paginate_entries(filtered_entries, 5)[1],
              pages |-> paginate_entries(filtered_entries, 5)[2]]

\* src/app.py lines 160-256, the left column.  cp: session_state.current_page;
\* sel: whether a source is selected; trig: what started the run; pg: the
\* counts of lines 174-175.  ended is "on" when the run goes on to the right
\* column.
LeftColumn(cp, sel, pg, shown, trig) ==
    LET off == [cp |-> cp, ended |-> "on", widgets |-> {}, page_max |-> 0,
                page_value |-> 0, sliced |-> FALSE, page |-> 0, pages |-> 0,
                calls |-> IF sel THEN 1 ELSE 0]
    IN  IF ~pg.shown THEN off
        ELSE
        LET pages == pg.pages
            \* lines 178-179
            cp1 == IF cp > pages THEN 1 ELSE cp
            \* the buttons that are rendered enabled
            top == (IF cp1 <= 1 THEN {} ELSE {<<"prev">>})
                   \cup (IF cp1 >= pages THEN {} ELSE {<<"next">>})
            bottom == (IF cp1 <= 1 THEN {} ELSE {<<"prev2">>})
                      \cup (IF cp1 >= pages THEN {} ELSE {<<"next2">>})
            \* line 204: the page is sliced at cp1
            at_slice == [off EXCEPT !.cp = cp1, !.sliced = TRUE, !.page = cp1,
                                    !.pages = pages]
            \* lines 238-244: the bounds and the default are part of the
            \* widget's identity; with those of the last run it holds what
            \* the user entered, otherwise it is a new widget holding `value`
            page_input == IF /\ trig.kind = "page_input"
                             /\ shown.page_max = pages
                             /\ shown.page_value = cp1
                          THEN trig.page ELSE cp1
        IN  IF pg.total_entries = 0 THEN [off EXCEPT !.cp = cp1, !.pages = pages]
            ELSE IF trig.kind = "prev"
            THEN [off EXCEPT !.cp = cp1 - 1, !.ended = "rerun", !.pages = pages]
            ELSE IF trig.kind = "next"
            THEN [off EXCEPT !.cp = cp1 + 1, !.ended = "rerun", !.pages = pages]
            ELSE IF trig.kind = "prev2"
            THEN [at_slice EXCEPT !.cp = cp1 - 1, !.ended = "rerun"]
            \* st.number_input refuses a value below min_value
            ELSE IF cp1 < 1
            THEN [at_slice EXCEPT !.ended = "raised",
                                  !.widgets = top \cup (bottom \ {<<"next2">>})]
            ELSE IF page_input # cp1
            THEN [at_slice EXCEPT !.cp = page_input, !.ended = "rerun"]
            ELSE IF trig.kind = "next2"
            THEN [at_slice EXCEPT !.cp = cp1 + 1, !.ended = "rerun"]
            ELSE [at_slice EXCEPT !.widgets = top \cup bottom \cup {<<"page_input">>},
                                  !.page_max = pages, !.page_value = cp1]

\* what a run of main() leaves: the session state, the widgets on the page
\* and the record of the run
EndOfRun(left, kws, cp, ended, widgets) ==
    [ss |-> [current_page |-> cp, keywords |-> kws],
     shown |-> [widgets |-> widgets \cup {<<"source_selector">>},
                page_max |-> left.page_max,
                page_value |-> left.page_value],
     calls |-> left.calls, ended |-> ended, sliced |-> left.sliced,
     page |-> left.page, pages |-> left.pages]

\* src/app.py lines 118-374, one run of main().  ss: the session state;
\* auto: the checkbox as this run reads it; left: what the left column did.
ScriptRunA(ss, auto, trig, left) ==
    IF left.ended # "on"
    THEN EndOfRun(left, ss.keywords, left.cp, left.ended, left.widgets)
    \* lines 293 and 304-307
    ELSE IF trig.kind = "apply"
    THEN EndOfRun(left, ParseKeywords(trig.lines), 1, "rerun", left.widgets)
    \* lines 310-313
    ELSE IF trig.kind = "clear"
    THEN EndOfRun(left, <<>>, 1, "rerun", left.widgets)
    \* lines 321-339
    ELSE IF trig.kind = "quick_filter"
    THEN EndOfRun(left, QuickFilters[trig.which], 1, "rerun", left.widgets)
    \* lines 347-349
    ELSE IF auto
    THEN EndOfRun(left, ss.keywords, left.cp, "rerun",
                  left.widgets \cup RightWidgets)
    \* lines 352-353
    ELSE IF trig.kind = "refresh"
    THEN EndOfRun(left, ss.keywords, left.cp, "rerun", left.widgets)
    \* lines 356-374: the status panel and the footer
    ELSE EndOfRun(left, ss.keywords, left.cp, "complete",
                  left.widgets \cup RightWidgets)

\* src/app.py line 165, for each of the feeds: fetch_rss_feed with its
\* default max_entries
FeedData == [parsed \in DashFeeds |-> fetch_rss_feed(parsed, 50).val]

SessionA == [current_page |-> current_page, keywords |-> st_keywords]

InitDashA ==
    /\ DashBIdle /\ DashAIdle
    /\ FeedIdle /\ FilterIdle /\ PageIdle /\ ApiIdle

\* one run of main() started by trig, with the select box and the checkbox
\* as given
RunA(trig, sel, auto, parsed) ==
    \E pg \in {Paginated(sel, st_keywords, FeedData[parsed])} :
    \E left \in {LeftColumn(current_page, sel, pg, a_shown, trig)} :
    \E r \in {ScriptRunA(SessionA, auto, trig, left)} :
        /\ current_page' = r.ss.current_page
        /\ st_keywords' = r.ss.keywords
        /\ source_selector' = sel
        /\ auto_refresh' = auto
        /\ a_shown' = r.shown
        /\ a_run' = [trigger |-> trig.kind, calls |-> r.calls,
                     ended |-> r.ended, sliced |-> r.sliced,
                     page |-> r.page, pages |-> r.pages,
                     \* the number of runs so far is odd or even
                     parity |-> 1 - a_run.parity]
        /\ UNCHANGED <<feed_vars, filter_vars, page_vars, api_vars,
                       dash_b_vars>>

\* the user acts on a widget only when no rerun is under way, and only on a
\* widget the last run left enabled on the page
CanUse(w) == a_run.ended # "rerun" /\ w \in a_shown.widgets

\* the page is loaded, or a source is picked in the select box, or the
\* placeholder is picked again (lines 143-147)
Select_Source_A ==
    \E sel \in BOOLEAN, parsed \in DashFeeds :
        /\ a_run.ended # "rerun"
        /\ RunA([kind |-> "source_selector"], sel, auto_refresh, parsed)

\* a button of the pagination controls is clicked (lines 189, 197, 232, 250)
Click_Page_Button_A ==
    \E b \in {"prev", "next", "prev2", "next2"}, parsed \in DashFeeds :
        /\ CanUse(<<b>>)
        /\ RunA([kind |-> b], source_selector, auto_refresh, parsed)

\* a page number is entered in "Jump to page:" (lines 238-244)
Enter_Page_A ==
    \E p \in 1..a_shown.page_max, parsed \in DashFeeds :
        /\ CanUse(<<"page_input">>)
        /\ p # a_shown.page_value
        /\ RunA([kind |-> "page_input", page |-> p], source_selector,
                auto_refresh, parsed)

\* keywords are typed and Apply Filters is clicked (lines 286-307)
Click_Apply_A ==
    \E lines \in DashKeywordLines, parsed \in DashFeeds :
        /\ CanUse(<<"apply">>)
        /\ RunA([kind |-> "apply", lines |-> lines], source_selector,
                auto_refresh, parsed)

\* Clear All Filters is clicked (line 310)
Click_Clear_A ==
    \E parsed \in DashFeeds :
        /\ CanUse(<<"clear">>)
        /\ RunA([kind |-> "clear"], source_selector, auto_refresh, parsed)

\* one of the quick filters is clicked (lines 321-336)
Click_Quick_Filter_A ==
    \E i \in 1..Len(QuickFilters), parsed \in DashFeeds :
        /\ CanUse(<<"quick_filter">>)
        /\ RunA([kind |-> "quick_filter", which |-> i], source_selector,
                auto_refresh, parsed)

\* the Auto refresh checkbox is ticked or unticked (line 347)
Toggle_Auto_Refresh_A ==
    \E parsed \in DashFeeds :
        /\ CanUse(<<"auto_refresh">>)
        /\ RunA([kind |-> "auto_refresh"], source_selector, ~auto_refresh,
                parsed)

\* Refresh Current Source is clicked (line 352)
Click_Refresh_A ==
    \E parsed \in DashFeeds :
        /\ CanUse(<<"refresh">>)
        /\ RunA([kind |-> "refresh"], source_selector, auto_refresh, parsed)

\* the run that st.rerun() starts: no widget was acted on
Rerun_A ==
    \E parsed \in DashFeeds :
        /\ a_run.ended = "rerun"
        /\ RunA([kind |-> "rerun"], source_selector, auto_refresh, parsed)

NextDashA ==
    \/ Select_Source_A
    \/ Click_Page_Button_A
    \/ Enter_Page_A
    \/ Click_Apply_A
    \/ Click_Clear_A
    \/ Click_Quick_Filter_A
    \/ Toggle_Auto_Refresh_A
    \/ Click_Refresh_A
    \/ Rerun_A

SpecDashA == InitDashA /\ [][NextDashA]_vars

\* Streamlit starts the run that st.rerun() asked for
SpecDashAFair == SpecDashA /\ WF_vars(Rerun_A)

\* C13: whenever a page is sliced for display, current_page is within
\* 1..total_pages of the filtered list, and no run of main raises.
C13_PageInRange ==
    /\ a_run.sliced => 1 <= a_run.page /\ a_run.page <= a_run.pages
    /\ a_run.ended # "raised"

\* C15: a run that asks for a rerun is followed, after finitely many reruns,
\* by a run that does not: main is then executed to its end.
C15_RerunsEnd == (a_run.ended = "rerun") ~> (a_run.ended # "rerun")

====
